---- MODULE Spec2Model ----
(***************************************************************************)
(* Model of src/models/plugins/history.plugin.ts: a mongoose plugin that   *)
(* writes one history document per mutation of a tracked document, through *)
(* a History model cached per connection.                                  *)
(*                                                                         *)
(* Every `await` of the source is a scheduling point: a hook is split into *)
(* the steps between its awaits, and the steps of the callers in Procs     *)
(* interleave.  Documents and update objects are maps from keys to strings.*)
(***************************************************************************)
EXTENDS Integers, Sequences, FiniteSets, TLC

VARIABLES db, history, models, constructed, resolved, actor, mem, pc, req, ops

vars == <<db, history, models, constructed, resolved, actor, mem, pc, req, ops>>

(***************************************************************************)
(* Bounds and input domains                                                *)
(***************************************************************************)
\* number of operations started in one behaviour
MaxOps == 3

\* the callers whose operations overlap
Procs == {"p1", "p2"}
Conns == {"A", "B"}
\* the schemas the plugin is attached to, with options.modelName
ModelNames == {"Widget", "Gadget"}
Ids == {"w1", "w2", "g1"}
Names == {"a", "b"}
Dates == {"t1"}
NULL == "null"
\* ASYNC_STORAGE.get returns undefined when nothing is bound
Undefined == "undefined"

ModelOfId(id) == IF id = "g1" THEN "Gadget" ELSE "Widget"
IdsOf(m) == {id \in Ids : ModelOfId(id) = m}
\* doc.constructor.db: the connection the document's model is compiled on
ConnOf(m) == IF m = "Gadget" THEN "B" ELSE "A"

EmptyMap == [k \in {} |-> NULL]

\* the conditions this.getQuery() may hold: one condition on name, which
\* matches none, one or two stored Widgets as their names change
Queries == {[name |-> "a"]}
\* the update objects this.getUpdate() may hold: plain, and operator-style
Patches == {[name |-> "b"], ("$set" :> "name=b")}

(***************************************************************************)
(* Documents                                                               *)
(***************************************************************************)
\* an in-memory mongoose document of model m
Document(m, fields, isNew, modified) ==
  [model |-> m, fields |-> fields, isNew |-> isNew, modified |-> modified]

\* new Model({_id, name}): deletedAt takes the schema default
NewDocument(id, name) ==
  Document(ModelOfId(id), [_id |-> id, name |-> name, deletedAt |-> NULL],
           TRUE, {})

\* a document hydrated from the store by a query
Hydrate(id) == Document(ModelOfId(id), db[id], FALSE, {})

\* doc.toObject(): a plain copy of all the fields
toObject(doc) == [k \in DOMAIN doc.fields |-> doc.fields[k]]

\* doc.set(path, v): a path whose value changes is marked modified
SetPath(doc, path, v) ==
  IF doc.fields[path] = v THEN doc
  ELSE [doc EXCEPT !.fields[path] = v, !.modified = @ \cup {path}]

\* query conditions are matched field by field
Matches(fields, q) == \A k \in DOMAIN q : fields[k] = q[k]

\* ids of the stored documents of model m matching q
Matching(m, q) == {id \in IdsOf(m) \cap DOMAIN db : Matches(db[id], q)}

\* natural order of the store: by _id
IdRank(id) == CASE id = "w1" -> 1 [] id = "w2" -> 2 [] OTHER -> 3

RECURSIVE SortIds(_)
SortIds(S) ==
  IF S = {} THEN <<>>
  ELSE LET first == CHOOSE id \in S : \A o \in S : IdRank(id) <= IdRank(o)
       IN <<first>> \o SortIds(S \ {first})

\* this.model.find(q): all matching documents, in natural order
Find(m, q) == LET ids == SortIds(Matching(m, q))
              IN [j \in 1..Len(ids) |-> Hydrate(ids[j])]

\* this.model.findOne(q): the first matching document, or none
FindOne(m, q) == LET all == Find(m, q)
                 IN IF Len(all) = 0 THEN <<>> ELSE <<all[1]>>

(***************************************************************************)
(* HistoryModelSingleton                                                   *)
(***************************************************************************)
\* connection.model('History', historySchema): the n-th History model
\* compiled on connection conn; it writes to that connection's collection
ConnectionModel(conn, n) == [conn |-> conn, serial |-> n]

\* slip: no models.has() test, a model is compiled and set on every call
getModelNoHas(ms, cons, conn) ==
  LET model == ConnectionModel(conn, cons[conn] + 1)
      set == (conn :> model) @@ [c \in DOMAIN ms \ {conn} |-> ms[c]]
  IN [models |-> set,
      constructed |-> [cons EXCEPT ![conn] = @ + 1],
      model |-> set[conn]]

\* slip: the compiled model is returned without models.set(), so the next
\* call finds no entry and compiles again
getModelNoSet(ms, cons, conn) ==
  IF conn \notin DOMAIN ms
    THEN [models |-> ms,
          constructed |-> [cons EXCEPT ![conn] = @ + 1],
          model |-> ConnectionModel(conn, cons[conn] + 1)]
    ELSE [models |-> ms, constructed |-> cons, model |-> ms[conn]]

\* slip: one static model instead of a map keyed by connection, so the
\* model compiled first is returned for every connection
getModelStatic(ms, cons, conn) ==
  IF DOMAIN ms = {}
    THEN LET model == ConnectionModel(conn, cons[conn] + 1)
         IN [models |-> (conn :> model) @@ ms,
             constructed |-> [cons EXCEPT ![conn] = @ + 1],
             model |-> model]
    ELSE [models |-> ms, constructed |-> cons,
          model |-> ms[CHOOSE c \in DOMAIN ms : TRUE]]

\* HistoryModelSingleton.getModel(connection), on the registry ms: the
\* registry afterwards, the number of models compiled, the model returned
getModel(ms, cons, conn) ==
  IF conn \notin DOMAIN ms
    THEN LET model == ConnectionModel(conn, cons[conn] + 1)
             set == (conn :> model) @@ ms
         IN [models |-> set,
             constructed |-> [cons EXCEPT ![conn] = @ + 1],
             model |-> set[conn]]
    ELSE [models |-> ms, constructed |-> cons, model |-> ms[conn]]

\* slip: the connection is entered in the registry before its model is
\* compiled, so a throwing connection.model() leaves an entry behind
getModelThrownCached(ms, cons, conn) ==
  [models |-> (conn :> ConnectionModel(conn, 0)) @@ ms, constructed |-> cons]

\* getModel(connection) when connection.model() throws: the exception leaves
\* getModel before models.set(), the registry is as it was
getModelThrown(ms, cons, conn) == [models |-> ms, constructed |-> cons]

(***************************************************************************)
(* createHistoryEntry                                                      *)
(***************************************************************************)
\* ASYNC_STORAGE.get('currentUserId') in the context of caller p: every
\* caller runs in its own context, p1 in one bound to a user and p2 in one
\* where nothing is bound
AsyncStorageGet(p) == actor[p]

\* slip: modifiedBy is not handed to the History document
HistoryDocumentNoModifiedBy(doc, action, changes, snapshot, currentUserId) ==
  [originalId |-> doc.fields._id,
   changes |-> changes,
   snapshot |-> snapshot,
   modelName |-> doc.model,
   action |-> action]

\* slip: an empty changes object is not handed over (changes || undefined)
HistoryDocumentNoEmptyChanges(doc, action, changes, snapshot, currentUserId) ==
  LET set == [originalId |-> doc.fields._id,
              snapshot |-> snapshot,
              modelName |-> doc.model,
              action |-> action]
      user == IF currentUserId = Undefined THEN EmptyMap
              ELSE [modifiedBy |-> currentUserId]
  IN IF DOMAIN changes = {} THEN user @@ set
     ELSE [changes |-> changes] @@ user @@ set

\* the document handed to new HistoryModel(...): a path set to undefined
\* is left unset
HistoryDocument(doc, action, changes, snapshot, currentUserId) ==
  LET set == [originalId |-> doc.fields._id,
              changes |-> changes,
              snapshot |-> snapshot,
              modelName |-> doc.model,
              action |-> action]
  IN IF currentUserId = Undefined THEN set
     ELSE [modifiedBy |-> currentUserId] @@ set

\* how one call of createHistoryEntry can end: the entry is saved, the save
\* of the entry rejects, or compiling the History model throws
Outcomes == {"ok", "writeError", "registrationError"}

\* slip: the newest entry is put in front of the log
HistorySaveInFront(log, entry) == <<entry>> \o log

\* slip: the entry replaces the one the collection holds for the same
\* document (an upsert by originalId) instead of being inserted
HistorySaveUpsert(log, entry) ==
  IF \E j \in 1..Len(log) : log[j].originalId = entry.originalId
    THEN [j \in 1..Len(log) |->
            IF log[j].originalId = entry.originalId THEN entry ELSE log[j]]
    ELSE Append(log, entry)

\* new HistoryModel(entry).save(): a new document is inserted at the end of
\* the History collection log
HistorySave(log, entry) == Append(log, entry)

\* the History model createHistoryEntry resolves for doc
ResolvedModel(doc) == getModel(models, constructed, ConnOf(doc.model)).model

\* createHistoryEntry(doc, action, changes, snapshot) called by p, ending
\* with outcome o
createHistoryEntry(p, doc, action, changes, snapshot, o) ==
  LET currentUserId == AsyncStorageGet(p)
      connection == ConnOf(doc.model)
      got == getModel(models, constructed, connection)
      HistoryModel == got.model
      entry == HistoryDocument(doc, action, changes, snapshot, currentUserId)
  IN IF o = "registrationError"
       THEN /\ connection \notin DOMAIN models
            /\ models' = getModelThrown(models, constructed, connection).models
            /\ constructed' = getModelThrown(models, constructed, connection).constructed
            /\ UNCHANGED <<resolved, history>>
       ELSE /\ models' = got.models
            /\ constructed' = got.constructed
            /\ resolved' = [resolved EXCEPT ![connection] = @ \cup {HistoryModel}]
            /\ IF o = "ok"
                 THEN history' = [history EXCEPT ![HistoryModel.conn] = HistorySave(@, entry)]
                 ELSE UNCHANGED history

\* where the entry of a successful createHistoryEntry(doc, ...) of p lands,
\* the History model it was saved through and the actor context at that
\* moment
WrittenRef(p, doc) ==
  LET HistoryModel == ResolvedModel(doc)
  IN [conn |-> HistoryModel.conn,
      idx |-> Len(history[HistoryModel.conn]) + 1,
      via |-> HistoryModel,
      actor |-> actor[p]]

\* the request record of p after a call of createHistoryEntry
Recorded(r, p, doc, o) ==
  IF o = "ok" THEN [r EXCEPT !.written = Append(@, WrittenRef(p, doc))]
  ELSE [r EXCEPT !.err = o]

\* slip: the write is not awaited (or its rejection is caught), so the hook
\* goes on whatever the outcome
AwaitedNot(o, next) == next

\* a rejected await throws out of the hook: next() is not reached
Awaited(o, next) == IF o = "ok" THEN next ELSE "failed"

(***************************************************************************)
(* Requests                                                                *)
(***************************************************************************)
\* a caller can start an operation when it has none in flight
Ready == {"idle"}

\* an operation has resolved ("done") or rejected ("failed")
Settled == {"done", "failed"}

\* the operation of a caller: its inputs, the documents its hook works on,
\* the entries it has written, its error, whether the primary mutation ran
Request(kind, m, q, u, docs) ==
  [kind |-> kind, model |-> m, query |-> q, patch |-> u, docs |-> docs,
   i |-> 1, written |-> <<>>, err |-> "none", applied |-> FALSE]

IdleReq == Request("none", "Widget", EmptyMap, EmptyMap, <<>>)

CanStart(p) == pc[p] \in Ready /\ ops < MaxOps

(***************************************************************************)
(* schema.pre('save')                                                      *)
(***************************************************************************)
\* slip: the hook does not look at isNew
SaveActionNoIsNew(this) == "update"

SaveAction(this) == IF this.isNew THEN "create" ELSE "update"

\* slip: the reduce runs over every path of the document
ModifiedMapAllPaths(this) == [path \in DOMAIN this.fields |-> this.fields[path]]

\* modifiedPaths().reduce(...): each modified path with its current value
ModifiedMap(this) == [path \in this.modified |-> this.fields[path]]

SaveChanges(this) == IF this.isNew THEN toObject(this) ELSE ModifiedMap(this)

\* the pre('save') hook on document this of caller p
preSave(p, this, o) ==
  createHistoryEntry(p, this, SaveAction(this), SaveChanges(this),
                     toObject(this), o)

\* p calls save() on document this, as operation kind: the hook runs first
CallSave(p, kind, this, o) ==
  /\ CanStart(p)
  /\ preSave(p, this, o)
  /\ mem' = (p :> this) @@ mem
  /\ req' = [req EXCEPT ![p] =
               Recorded(Request(kind, this.model, EmptyMap, EmptyMap, <<this>>),
                        p, this, o)]
  /\ pc' = [pc EXCEPT ![p] = Awaited(o, "save_primary")]
  /\ ops' = ops + 1
  /\ UNCHANGED <<db, actor>>

\* the documents p may save: a new one (named "a"; _id is the caller's
\* choice, so it may be one already stored), or the one it holds, possibly
\* after assigning its name
Savable(p) ==
  {NewDocument(id, "a") : id \in Ids}
    \cup (IF p \in DOMAIN mem
            THEN {mem[p]} \cup {SetPath(mem[p], "name", n) : n \in Names}
            ELSE {})

Save(p) == \E this \in Savable(p), o \in Outcomes : CallSave(p, "save", this, o)

\* what the store does for save() once the hooks called next(): insert a new
\* document, or update the modified paths of an existing one
SavePrimary(p) ==
  /\ pc[p] = "save_primary"
  /\ LET this == mem[p]
         id == this.fields._id
         fails == IF this.isNew THEN id \in DOMAIN db
                  ELSE this.modified # {} /\ id \notin DOMAIN db
         after == IF req[p].kind = "save" THEN "done" ELSE "tombstone"
     IN IF fails
          THEN /\ req' = [req EXCEPT ![p].applied = TRUE, ![p].err = "primaryError"]
               /\ pc' = [pc EXCEPT ![p] = "failed"]
               /\ UNCHANGED <<db, mem>>
          ELSE /\ db' = IF this.isNew THEN (id :> this.fields) @@ db
                        ELSE IF this.modified = {} THEN db
                        ELSE [db EXCEPT ![id] =
                                [k \in DOMAIN @ |-> IF k \in this.modified
                                                      THEN this.fields[k] ELSE @[k]]]
               /\ mem' = [mem EXCEPT ![p].isNew = FALSE, ![p].modified = {}]
               /\ req' = [req EXCEPT ![p].applied = TRUE]
               /\ pc' = [pc EXCEPT ![p] = after]
  /\ UNCHANGED <<history, models, constructed, resolved, actor, ops>>

(***************************************************************************)
(* schema.methods.softDelete, schema.methods.restore                       *)
(***************************************************************************)
\* this.deletedAt = new Date(); await this.save()
SoftDelete(p) ==
  \E now \in Dates, o \in Outcomes :
    /\ p \in DOMAIN mem
    /\ CallSave(p, "softDelete", SetPath(mem[p], "deletedAt", now), o)

\* this.deletedAt = null; await this.save()
Restore(p) ==
  \E o \in Outcomes :
    /\ p \in DOMAIN mem
    /\ CallSave(p, "restore", SetPath(mem[p], "deletedAt", NULL), o)

\* slip: the tombstone is recorded as cleared
SoftDeleteChangesCleared(this) == [deletedAt |-> NULL]

\* the changes of the explicit softDelete entry
SoftDeleteChanges(this) == [deletedAt |-> this.fields.deletedAt]

\* the changes of the explicit restore entry
RestoreChanges == [deletedAt |-> NULL]

\* the explicit entry after save() resolved
TombstoneEntry(p, action, changes, o) ==
  /\ pc[p] = "tombstone"
  /\ req[p].kind = action
  /\ createHistoryEntry(p, mem[p], action, changes, toObject(mem[p]), o)
  /\ req' = [req EXCEPT ![p] = Recorded(@, p, mem[p], o)]
  /\ pc' = [pc EXCEPT ![p] = Awaited(o, "done")]
  /\ UNCHANGED <<db, actor, mem, ops>>

SoftDeleteEntry(p) ==
  \E o \in Outcomes :
    /\ p \in DOMAIN mem
    /\ TombstoneEntry(p, "softDelete", SoftDeleteChanges(mem[p]), o)

RestoreEntry(p) ==
  \E o \in Outcomes : TombstoneEntry(p, "restore", RestoreChanges, o)

(***************************************************************************)
(* schema.pre('deleteOne', {document: true, query: false})                 *)
(***************************************************************************)
\* slip: changes and snapshot handed over in the wrong order
preDeleteOneSwapped(p, this, o) ==
  createHistoryEntry(p, this, "hardDelete", toObject(this), EmptyMap, o)

\* the pre('deleteOne') hook on document this of caller p
preDeleteOne(p, this, o) ==
  createHistoryEntry(p, this, "hardDelete", EmptyMap, toObject(this), o)

\* p calls deleteOne() on the document it holds: the hook runs first
DeleteOne(p) ==
  \E o \in Outcomes :
    /\ CanStart(p)
    /\ p \in DOMAIN mem
    /\ preDeleteOne(p, mem[p], o)
    /\ req' = [req EXCEPT ![p] =
                 Recorded(Request("deleteOne", mem[p].model, EmptyMap, EmptyMap,
                                  <<mem[p]>>), p, mem[p], o)]
    /\ pc' = [pc EXCEPT ![p] = Awaited(o, "deleteOne_primary")]
    /\ ops' = ops + 1
    /\ UNCHANGED <<db, actor, mem>>

\* ids removed from the store
Remove(ids) == [id \in DOMAIN db \ ids |-> db[id]]

\* the store removes the document with this _id
DeleteOnePrimary(p) ==
  /\ pc[p] = "deleteOne_primary"
  /\ db' = Remove({mem[p].fields._id})
  /\ req' = [req EXCEPT ![p].applied = TRUE]
  /\ pc' = [pc EXCEPT ![p] = "done"]
  /\ UNCHANGED <<history, models, constructed, resolved, actor, mem, ops>>

(***************************************************************************)
(* Query middleware: findOneAndDelete, findOneAndUpdate                    *)
(***************************************************************************)
\* slip: { ...updates, ...object }
SpreadReversed(object, updates) ==
  [k \in DOMAIN object \cup DOMAIN updates |->
     IF k \in DOMAIN object THEN object[k] ELSE updates[k]]

\* { ...object, ...updates }: a key of both takes the value of updates
Spread(object, updates) ==
  [k \in DOMAIN object \cup DOMAIN updates |->
     IF k \in DOMAIN updates THEN updates[k] ELSE object[k]]

\* the field assignments an update object makes when the store applies it:
\* plain keys are assignments, and so is the content of $set
DecodeSet(v) == IF v = "name=b" THEN [name |-> "b"] ELSE EmptyMap

Assignments(updates) ==
  LET plain == [k \in DOMAIN updates \ {"$set"} |-> updates[k]]
  IN IF "$set" \in DOMAIN updates
       THEN Spread(plain, DecodeSet(updates["$set"]))
       ELSE plain

\* a stored document after the store applied updates to it
Updated(fields, updates) ==
  LET set == Assignments(updates)
  IN [k \in DOMAIN fields |-> IF k \in DOMAIN set THEN set[k] ELSE fields[k]]

\* p issues a query operation on model m: the hook starts with its read
\* (this.model.findOne(this.getQuery()) or this.model.find(this.getQuery()))
Fetch(p, kind, m, q, u, docs, label) ==
  /\ CanStart(p)
  /\ req' = [req EXCEPT ![p] = Request(kind, m, q, u, docs)]
  /\ pc' = [pc EXCEPT ![p] = label]
  /\ ops' = ops + 1
  /\ UNCHANGED <<db, history, models, constructed, resolved, actor, mem>>

\* slip: no if (doc) test, so createHistoryEntry runs on null and throws
SkipThrows(p, label) ==
  /\ pc' = [pc EXCEPT ![p] = "failed"]
  /\ UNCHANGED <<db, history, models, constructed, resolved, actor, mem, req, ops>>

\* the hook has nothing to write and calls next()
Skip(p, label) ==
  /\ pc' = [pc EXCEPT ![p] = label]
  /\ UNCHANGED <<db, history, models, constructed, resolved, actor, mem, req, ops>>

\* the changes and the snapshot a query hook of p writes for document doc
QueryChanges(kind, updates) ==
  IF kind \in {"findOneAndUpdate", "updateMany"} THEN updates ELSE EmptyMap

QuerySnapshot(kind, doc, updates) ==
  IF kind \in {"findOneAndUpdate", "updateMany"}
    THEN Spread(toObject(doc), updates)
    ELSE toObject(doc)

QueryAction(kind) ==
  IF kind \in {"findOneAndUpdate", "updateMany"} THEN "update" ELSE "hardDelete"

\* slip: the loop walks the fetched documents backwards
CurrentReversed(r) == r.docs[Len(r.docs) - r.i + 1]

\* the document a hook works on in turn r.i: if (doc), or
\* for (const doc of docs)
Current(r) == r.docs[r.i]

\* the hook of p writes the entry of its current document; the turn is over
\* when the write resolved
WriteFetched(p, o, next) ==
  LET r == req[p]
      doc == Current(r)
  IN /\ createHistoryEntry(p, doc, QueryAction(r.kind),
                           QueryChanges(r.kind, r.patch),
                           QuerySnapshot(r.kind, doc, r.patch), o)
     /\ req' = [req EXCEPT ![p] =
                  [Recorded(r, p, doc, o) EXCEPT !.i = IF o = "ok" THEN r.i + 1 ELSE r.i]]
     /\ pc' = [pc EXCEPT ![p] = Awaited(o, next)]
     /\ UNCHANGED <<db, actor, mem, ops>>

FindOneAndDelete(p) ==
  \E m \in ModelNames, q \in Queries :
    Fetch(p, "findOneAndDelete", m, q, EmptyMap, FindOne(m, q), "findOneAndDelete_hook")

FindOneAndDeleteHook(p) ==
  /\ pc[p] = "findOneAndDelete_hook"
  /\ IF Len(req[p].docs) > 0
       THEN \E o \in Outcomes : WriteFetched(p, o, "findOneAndDelete_primary")
       ELSE Skip(p, "findOneAndDelete_primary")

\* the store removes the first document matching the conditions now
FindOneAndDeletePrimary(p) ==
  /\ pc[p] = "findOneAndDelete_primary"
  /\ LET found == FindOne(req[p].model, req[p].query)
     IN db' = Remove({found[j].fields._id : j \in 1..Len(found)})
  /\ req' = [req EXCEPT ![p].applied = TRUE]
  /\ pc' = [pc EXCEPT ![p] = "done"]
  /\ UNCHANGED <<history, models, constructed, resolved, actor, mem, ops>>

FindOneAndUpdate(p) ==
  \E m \in ModelNames, q \in Queries, u \in Patches :
    Fetch(p, "findOneAndUpdate", m, q, u, FindOne(m, q), "findOneAndUpdate_hook")

FindOneAndUpdateHook(p) ==
  /\ pc[p] = "findOneAndUpdate_hook"
  /\ IF Len(req[p].docs) > 0
       THEN \E o \in Outcomes : WriteFetched(p, o, "findOneAndUpdate_primary")
       ELSE Skip(p, "findOneAndUpdate_primary")

\* the store applies the update to the documents with these ids
Apply(ids, updates) ==
  [id \in DOMAIN db |-> IF id \in ids THEN Updated(db[id], updates) ELSE db[id]]

\* the store updates the first document matching the conditions now
FindOneAndUpdatePrimary(p) ==
  /\ pc[p] = "findOneAndUpdate_primary"
  /\ LET found == FindOne(req[p].model, req[p].query)
     IN db' = Apply({found[j].fields._id : j \in 1..Len(found)}, req[p].patch)
  /\ req' = [req EXCEPT ![p].applied = TRUE]
  /\ pc' = [pc EXCEPT ![p] = "done"]
  /\ UNCHANGED <<history, models, constructed, resolved, actor, mem, ops>>

(***************************************************************************)
(* Query middleware: deleteMany, updateMany                                *)
(***************************************************************************)
\* slip: next() sits inside the loop body, so the loop is left after its
\* first turn
LoopDoneAfterFirst(r) == r.i > Len(r.docs) \/ r.i > 1

\* for (const doc of docs) has gone through all the fetched documents
LoopDone(r) == r.i > Len(r.docs)

DeleteMany(p) ==
  \E m \in ModelNames, q \in Queries :
    Fetch(p, "deleteMany", m, q, EmptyMap, Find(m, q), "deleteMany_loop")

\* one turn of for (const doc of docs): the next entry is written and awaited
DeleteManyEntry(p) ==
  /\ pc[p] = "deleteMany_loop"
  /\ ~LoopDone(req[p])
  /\ \E o \in Outcomes : WriteFetched(p, o, "deleteMany_loop")

\* after the loop, next(): the store removes every document matching now
DeleteManyPrimary(p) ==
  /\ pc[p] = "deleteMany_loop"
  /\ LoopDone(req[p])
  /\ db' = Remove(Matching(req[p].model, req[p].query))
  /\ req' = [req EXCEPT ![p].applied = TRUE]
  /\ pc' = [pc EXCEPT ![p] = "done"]
  /\ UNCHANGED <<history, models, constructed, resolved, actor, mem, ops>>

UpdateMany(p) ==
  \E m \in ModelNames, q \in Queries, u \in Patches :
    Fetch(p, "updateMany", m, q, u, Find(m, q), "updateMany_loop")

UpdateManyEntry(p) ==
  /\ pc[p] = "updateMany_loop"
  /\ ~LoopDone(req[p])
  /\ \E o \in Outcomes : WriteFetched(p, o, "updateMany_loop")

\* after the loop, next(): the store updates every document matching now
UpdateManyPrimary(p) ==
  /\ pc[p] = "updateMany_loop"
  /\ LoopDone(req[p])
  /\ db' = Apply(Matching(req[p].model, req[p].query), req[p].patch)
  /\ req' = [req EXCEPT ![p].applied = TRUE]
  /\ pc' = [pc EXCEPT ![p] = "done"]
  /\ UNCHANGED <<history, models, constructed, resolved, actor, mem, ops>>

(***************************************************************************)
(* Callers                                                                 *)
(***************************************************************************)
\* the promise of the operation settles and the caller goes on
Return(p) ==
  /\ pc[p] \in Settled
  /\ pc' = [pc EXCEPT ![p] = "idle"]
  /\ req' = [req EXCEPT ![p] = IdleReq]
  /\ UNCHANGED <<db, history, models, constructed, resolved, actor, mem, ops>>

(***************************************************************************)
(* Specification                                                           *)
(***************************************************************************)
Init ==
  /\ db = EmptyMap
  /\ history = [c \in Conns |-> <<>>]
  /\ models = EmptyMap
  /\ constructed = [c \in Conns |-> 0]
  /\ resolved = [c \in Conns |-> {}]
  /\ actor = [p \in Procs |-> IF p = "p1" THEN "u1" ELSE Undefined]
  /\ mem = EmptyMap
  /\ pc = [p \in Procs |-> "idle"]
  /\ req = [p \in Procs |-> IdleReq]
  /\ ops = 0

Next ==
  \E p \in Procs :
    \/ Save(p)
    \/ SavePrimary(p)
    \/ SoftDelete(p)
    \/ SoftDeleteEntry(p)
    \/ Restore(p)
    \/ RestoreEntry(p)
    \/ DeleteOne(p)
    \/ DeleteOnePrimary(p)
    \/ FindOneAndDelete(p)
    \/ FindOneAndDeleteHook(p)
    \/ FindOneAndDeletePrimary(p)
    \/ FindOneAndUpdate(p)
    \/ FindOneAndUpdateHook(p)
    \/ FindOneAndUpdatePrimary(p)
    \/ DeleteMany(p)
    \/ DeleteManyEntry(p)
    \/ DeleteManyPrimary(p)
    \/ UpdateMany(p)
    \/ UpdateManyEntry(p)
    \/ UpdateManyPrimary(p)
    \/ Return(p)

Spec == Init /\ [][Next]_vars

\* the callers use the document methods only: save, softDelete, restore and
\* deleteOne on the documents they hold
InstanceNext ==
  \E p \in Procs :
    \/ Save(p)
    \/ SavePrimary(p)
    \/ SoftDelete(p)
    \/ SoftDeleteEntry(p)
    \/ Restore(p)
    \/ RestoreEntry(p)
    \/ DeleteOne(p)
    \/ DeleteOnePrimary(p)
    \/ Return(p)

SpecInstance == Init /\ [][InstanceNext]_vars

(***************************************************************************)
(* Properties                                                              *)
(***************************************************************************)
\* the history entry a request's reference points to
EntryAt(ref) == history[ref.conn][ref.idx]

\* the entries the operation of p has written so far, in the order written
Written(p) == [j \in 1..Len(req[p].written) |-> EntryAt(req[p].written[j])]

\* the document (as the hook saw it) the operation of p works on at position j
Target(p, j) == req[p].docs[j]

Completed(p, kinds) == pc[p] = "done" /\ req[p].kind \in kinds

\* the errors of createHistoryEntry
AuditErrors == {"writeError", "registrationError"}

\* C1: a completed save of a document whose isNew flag was set has written
\* exactly one entry; it is a create entry for that document, and both its
\* changes and its snapshot are the document's full field map.
C1_CreateEntry ==
  \A p \in Procs :
    (Completed(p, {"save"}) /\ Target(p, 1).isNew) =>
      /\ Len(Written(p)) = 1
      /\ Written(p)[1].action = "create"
      /\ Written(p)[1].originalId = Target(p, 1).fields._id
      /\ Written(p)[1].changes = Target(p, 1).fields
      /\ Written(p)[1].snapshot = Target(p, 1).fields
      /\ DOMAIN Written(p)[1].changes = {"_id", "name", "deletedAt"}

C1_Witness ==
  \E p \in Procs :
    /\ Completed(p, {"save"})
    /\ Target(p, 1).isNew
    /\ Target(p, 1).fields._id \in DOMAIN db

\* C2: a completed save of a document that is not new has written exactly
\* one entry; it is an update entry whose changes has exactly the modified
\* paths as keys, each with the document's value at the save, so that no
\* unmodified field is in changes; its snapshot is the full document.
C2_UpdateEntry ==
  \A p \in Procs :
    (Completed(p, {"save"}) /\ ~Target(p, 1).isNew) =>
      LET e == Written(p)[1]
          this == Target(p, 1)
      IN /\ Len(Written(p)) = 1
         /\ e.action = "update"
         /\ \A k \in DOMAIN this.fields :
              IF k \in this.modified
                THEN k \in DOMAIN e.changes /\ e.changes[k] = this.fields[k]
                ELSE k \notin DOMAIN e.changes
         /\ DOMAIN e.changes \subseteq DOMAIN this.fields
         /\ e.snapshot = this.fields

C2_Witness ==
  \E p \in Procs :
    /\ Completed(p, {"save"})
    /\ ~Target(p, 1).isNew
    /\ Target(p, 1).modified = {"name"}
    /\ Written(p)[1].changes = [name |-> "b"]
    /\ db[Target(p, 1).fields._id].name = "b"

C4_AsStated ==
  \A p \in Procs :
    Completed(p, {"softDelete", "restore"}) =>
      /\ Len(Written(p)) = 2
      /\ Written(p)[1].action = "update"
      /\ Written(p)[2].action = req[p].kind
      /\ DOMAIN Written(p)[2].changes = {"deletedAt"}
      /\ (req[p].kind = "softDelete") = (Written(p)[2].changes.deletedAt # NULL)

\* C4, amended: a completed softDelete or restore has written exactly two
\* entries: first the entry of the save, which is an update entry when the
\* document was already persisted and a create entry when it was new, then
\* the explicit entry, with changes {deletedAt: <non-null>} for softDelete
\* and {deletedAt: null} for restore.
C4_TombstoneEntries ==
  \A p \in Procs :
    Completed(p, {"softDelete", "restore"}) =>
      /\ Len(Written(p)) = 2
      /\ Written(p)[1].action = (IF Target(p, 1).isNew THEN "create" ELSE "update")
      /\ Written(p)[2].action = req[p].kind
      /\ Written(p)[2].originalId = Target(p, 1).fields._id
      /\ DOMAIN Written(p)[2].changes = {"deletedAt"}
      /\ (req[p].kind = "softDelete") = (Written(p)[2].changes.deletedAt # NULL)

C4_Witness ==
  \E p \in Procs :
    /\ Completed(p, {"softDelete"})
    /\ ~Target(p, 1).isNew
    /\ Written(p)[1].action = "update"
    /\ Written(p)[2].changes = [deletedAt |-> "t1"]
    /\ db[Target(p, 1).fields._id].deletedAt = "t1"

BulkKinds == {"deleteMany", "updateMany"}

\* references to entries written one after the other in one collection
Ascending(refs) ==
  \A j, k \in 1..Len(refs) :
    j < k => refs[j].conn = refs[k].conn /\ refs[j].idx < refs[k].idx

\* C5: while a deleteMany or updateMany hook runs without error, the entries
\* it has written are those of the fetched documents before its current
\* position, one each and in fetch order (the entry of position i is in the
\* log before position i+1 is taken up); a completed bulk operation over N
\* fetched documents has written exactly N entries.
C5_BulkOrder ==
  \A p \in Procs :
    (req[p].kind \in BulkKinds /\ req[p].err = "none") =>
      /\ Len(Written(p)) = req[p].i - 1
      /\ \A j \in 1..Len(Written(p)) :
           Written(p)[j].originalId = Target(p, j).fields._id
      /\ Ascending(req[p].written)
      /\ pc[p] = "done" => Len(Written(p)) = Len(req[p].docs)

C5_Witness ==
  \E p \in Procs :
    /\ Completed(p, BulkKinds)
    /\ Len(req[p].docs) = 2
    /\ Written(p)[1].originalId = "w1"
    /\ Written(p)[2].originalId = "w2"

\* C6: when the write of entry k fails in a deleteMany or updateMany hook,
\* the operation rejects; exactly the entries of the k-1 documents before
\* position k are in the log and remain there, none is written for the
\* positions from k on, and the bulk mutation is not applied.
C6_BulkFailure ==
  \A p \in Procs :
    (req[p].kind \in BulkKinds /\ req[p].err \in AuditErrors) =>
      /\ pc[p] = "failed"
      /\ req[p].i \in 1..Len(req[p].docs)
      /\ Len(Written(p)) = req[p].i - 1
      /\ \A j \in 1..Len(Written(p)) :
           Written(p)[j].originalId = Target(p, j).fields._id
      /\ ~req[p].applied

C6_Witness ==
  \E p \in Procs :
    /\ req[p].kind \in BulkKinds
    /\ req[p].err = "writeError"
    /\ req[p].i = 2
    /\ Len(req[p].docs) = 2
    /\ Len(Written(p)) = 1

SingleKinds ==
  {"save", "softDelete", "restore", "deleteOne", "findOneAndDelete",
   "findOneAndUpdate"}

\* C7 as stated: on the single-document pathways, when an audit write
\* fails the operation rejects and its primary mutation has not run.
C7_AsStated ==
  \A p \in Procs :
    (req[p].kind \in SingleKinds /\ req[p].err \in AuditErrors) =>
      pc[p] = "failed" /\ ~req[p].applied

\* C7, amended: on the single-document pathways, when an audit write fails
\* the operation rejects; its primary mutation has not run, except when the
\* failed write is that of the explicit softDelete or restore entry, which
\* is attempted after the tombstone save has been applied and has written
\* its own entry.
C7_FailClosed ==
  \A p \in Procs :
    (req[p].kind \in SingleKinds /\ req[p].err \in AuditErrors) =>
      /\ pc[p] = "failed"
      /\ req[p].applied =>
           /\ req[p].kind \in {"softDelete", "restore"}
           /\ Len(Written(p)) = 1
           /\ Written(p)[1].action \in {"create", "update"}

C7_Witness ==
  \E p, q \in Procs :
    /\ req[p].kind = "save" /\ req[p].err = "writeError"
    /\ ~req[p].applied /\ ~Target(p, 1).isNew
    /\ db[Target(p, 1).fields._id].name # Target(p, 1).fields.name
    /\ req[q].kind = "findOneAndUpdate" /\ req[q].err = "writeError"

\* C8: every call of getModel for a connection has returned the same model,
\* the one the registry holds for it; the models returned for two distinct
\* connections are distinct; one model at most was compiled per connection.
C8_RegistryIdempotent ==
  \A c \in Conns :
    /\ Cardinality(resolved[c]) <= 1
    /\ constructed[c] <= 1
    /\ resolved[c] # {} => (c \in DOMAIN models /\ resolved[c] = {models[c]})
    /\ \A d \in Conns \ {c} : resolved[c] \cap resolved[d] = {}

C8_Witness ==
  /\ Len(history["A"]) >= 2
  /\ resolved["A"] # {}
  /\ resolved["B"] # {}

\* C9: an entry written while the caller's context has no user bound has no
\* modifiedBy (and the write goes through); an entry written while the
\* context is bound to user U has modifiedBy = U.
C9_ActorId ==
  \A p \in Procs :
    \A j \in 1..Len(req[p].written) :
      LET u == req[p].written[j].actor
      IN IF u = Undefined
           THEN "modifiedBy" \notin DOMAIN Written(p)[j]
           ELSE "modifiedBy" \in DOMAIN Written(p)[j] /\ Written(p)[j].modifiedBy = u

C9_Witness ==
  \E p, q \in Procs :
    /\ Len(req[p].written) > 0 /\ req[p].written[1].actor = Undefined
    /\ Len(req[q].written) > 0 /\ req[q].written[1].actor = "u1"

UpdateKinds == {"findOneAndUpdate", "updateMany"}

\* C10: every entry written by a findOneAndUpdate or updateMany hook is an
\* update entry whose changes is the update object as the caller gave it
\* (operator keys included) and whose snapshot has the keys of the fetched
\* document and of the update object, with the update object's value for
\* each of its keys and the document's value for the others.
C10_QueryUpdateEntry ==
  \A p \in Procs :
    req[p].kind \in UpdateKinds =>
      \A j \in 1..Len(Written(p)) :
        LET e == Written(p)[j]
            fields == Target(p, j).fields
            updates == req[p].patch
        IN /\ e.action = "update"
           /\ e.originalId = fields._id
           /\ e.changes = updates
           /\ DOMAIN e.snapshot = DOMAIN fields \cup DOMAIN updates
           /\ \A k \in DOMAIN updates : e.snapshot[k] = updates[k]
           /\ \A k \in DOMAIN fields \ DOMAIN updates : e.snapshot[k] = fields[k]

C10_Witness ==
  \E p, q \in Procs :
    /\ req[p].kind = "findOneAndUpdate" /\ Len(Written(p)) = 1
    /\ "$set" \in DOMAIN Written(p)[1].snapshot
    /\ req[q].kind = "updateMany" /\ Len(Written(q)) > 0
    /\ req[q].patch = [name |-> "b"]
    /\ Target(q, 1).fields.name = "a"

\* the entries of log whose originalId is id, in log order
EntityEntries(log, id) ==
  LET about(entry) == entry.originalId = id
  IN SelectSeq(log, about)

\* the history of entity id in the History collection of connection c
EntityHistory(c, id) == EntityEntries(history[c], id)

IsPrefix(s, t) == Len(s) <= Len(t) /\ \A j \in 1..Len(s) : t[j] = s[j]

\* C11: in every step, of whatever operation and however it ends, each
\* History collection keeps the entries it has, unchanged and at their
\* places, and each entity's history before the step is a prefix of its
\* history after the step.
C11_AppendOnly ==
  [][\A c \in Conns :
       /\ IsPrefix(history[c], history'[c])
       /\ \A id \in Ids : IsPrefix(EntityHistory(c, id), EntityHistory(c, id)')]_vars

C11_Witness ==
  \E p \in Procs :
    /\ pc[p] = "failed"
    /\ Len(EntityHistory("A", "w1")) >= 2
    /\ Len(EntityHistory("A", "w2")) >= 1

\* the values of action in historySchema
HistoryActions == {"create", "update", "softDelete", "hardDelete", "restore"}

InstanceKinds == {"save", "softDelete", "restore", "deleteOne"}

\* the document the j-th entry of the operation of p is about
Affected(p, j) == IF req[p].kind \in InstanceKinds THEN Target(p, 1) ELSE Target(p, j)

\* C12: every entry of every History collection has originalId, modelName,
\* action and changes set, with action one of the five values of the schema
\* and changes a map (possibly empty); the entries an operation has written
\* carry the _id of the document they are about and the modelName the plugin
\* was given for that document's schema.
C12_EntryShape ==
  /\ \A c \in Conns : \A j \in 1..Len(history[c]) :
       LET e == history[c][j]
       IN /\ {"originalId", "modelName", "action", "changes"} \subseteq DOMAIN e
          /\ e.action \in HistoryActions
          /\ e.originalId \in Ids
          /\ e.modelName \in ModelNames
          /\ DOMAIN e.changes \subseteq {"_id", "name", "deletedAt", "$set"}
  /\ \A p \in Procs : \A j \in 1..Len(req[p].written) :
       /\ Written(p)[j].originalId = Affected(p, j).fields._id
       /\ Written(p)[j].modelName = Affected(p, j).model
       /\ Written(p)[j].modelName = req[p].model

C12_Witness ==
  /\ \E j \in 1..Len(history["A"]) :
       /\ history["A"][j].action = "hardDelete"
       /\ history["A"][j].changes = EmptyMap
       /\ history["A"][j].modelName = "Widget"
  /\ \E j \in 1..Len(history["B"]) : history["B"][j].modelName = "Gadget"

\* C13: in a step in which compiling the History model fails for the
\* connection of an operation, the operation rejects with that error, no
\* entry is written, and the registry has no entry for that connection
\* afterwards, so that the next getModel call for it compiles a model again.
C13_RegistrationFailure ==
  [][\A p \in Procs :
       (req'[p].err = "registrationError" /\ req[p].err # "registrationError") =>
         LET c == ConnOf(req'[p].model)
         IN /\ pc'[p] = "failed"
            /\ history' = history
            /\ c \notin DOMAIN models'
            /\ models' = models
            /\ getModel(models', constructed', c).constructed[c] = constructed'[c] + 1]_vars

C13_Witness ==
  \E p \in Procs :
    /\ req[p].err = "registrationError"
    /\ pc[p] = "failed"
    /\ ConnOf(req[p].model) \in DOMAIN models
    /\ constructed[ConnOf(req[p].model)] = 1

QueryKinds == {"findOneAndDelete", "findOneAndUpdate", "deleteMany", "updateMany"}

TombstoneKinds == {"softDelete", "restore"}

\* C14: when the primary mutation of a save, deleteOne, findOneAndDelete,
\* findOneAndUpdate, deleteMany or updateMany has run, every entry of that
\* operation was written before it (one for an instance operation, one per
\* fetched document for a query operation, none after); in softDelete and
\* restore the save's entry precedes the tombstone save, and the explicit
\* entry is written only after that save went through, behind the save's
\* entry in the log.
C14_WriteBeforeMutation ==
  \A p \in Procs :
    /\ (req[p].kind \in {"save", "deleteOne"} /\ req[p].applied) =>
         Len(req[p].written) = 1
    /\ (req[p].kind \in QueryKinds /\ req[p].applied) =>
         Len(req[p].written) = Len(req[p].docs)
    /\ req[p].kind \in TombstoneKinds =>
         /\ req[p].applied => Len(req[p].written) >= 1
         /\ Len(req[p].written) >= 2 =>
              /\ req[p].applied
              /\ req[p].err = "none"
              /\ Len(req[p].written) = 2
              /\ Ascending(req[p].written)
              /\ Written(p)[1].action \in {"create", "update"}
              /\ Written(p)[2].action = req[p].kind

C14_Witness ==
  \E p, q \in Procs :
    /\ req[p].kind \in {"deleteMany", "updateMany"}
    /\ req[p].applied /\ Len(req[p].written) = 1
    /\ req[q].kind = "softDelete"
    /\ req[q].applied /\ Len(req[q].written) = 2

\* the number of entries the operation p has in flight has written
WrittenBefore(p) == IF pc[p] = "idle" THEN 0 ELSE Len(req[p].written)

\* the action of the n-th entry of an instance operation on document this
InstanceAction(kind, this, n) ==
  IF kind = "deleteOne" THEN "hardDelete"
  ELSE IF kind \in TombstoneKinds /\ n = 2 THEN kind
  ELSE IF this.isNew THEN "create" ELSE "update"

\* the first two entries of the example, written by the caller p1: create
\* {name: a}, then update of name to b
ExampleStart(h) ==
  /\ Len(h) >= 2
  /\ h[1].action = "create" /\ h[1].snapshot.name = "a"
  /\ h[2].action = "update" /\ h[2].changes = [name |-> "b"]
  /\ \A k \in 1..2 : "modifiedBy" \in DOMAIN h[k] /\ h[k].modifiedBy = actor["p1"]

\* the log of the example: create {name: a}, update of name to b, hard delete
ExampleLog(h) ==
  /\ Len(h) = 3
  /\ ExampleStart(h)
  /\ h[3].action = "hardDelete"

\* C15: when callers use instance operations only, each entry such an
\* operation writes becomes the last entry of its document's history, with
\* the action of the operation and the document's state as snapshot, so the
\* history lists the entries in the order the operations ran; and in the
\* example the log is exactly create (changes = snapshot, name a), update
\* (changes {name: b}, snapshot with name b) and, when the same caller then
\* runs deleteOne on the saved document, hardDelete (changes {}, snapshot the
\* one of the update).
C15_HistoryOrder ==
  /\ [][\A p \in Procs :
          (req'[p].kind \in InstanceKinds
             /\ Len(req'[p].written) = WrittenBefore(p) + 1) =>
            LET this == req'[p].docs[1]
                c == ConnOf(this.model)
                before == EntityHistory(c, this.fields._id)
                after == EntityEntries(history'[c], this.fields._id)
            IN /\ Len(after) = Len(before) + 1
               /\ IsPrefix(before, after)
               /\ after[Len(after)].action =
                    InstanceAction(req'[p].kind, this, Len(req'[p].written))
               /\ after[Len(after)].snapshot = this.fields
               /\ (/\ req'[p].kind = "deleteOne" /\ p = "p1"
                   /\ Len(before) = 2 /\ ExampleStart(before)
                   /\ ~this.isNew /\ this.modified = {}) =>
                     /\ ExampleLog(after)
                     /\ after[3].changes = EmptyMap
                     /\ after[3].snapshot = before[2].snapshot]_vars
  /\ [](\A id \in Ids :
          LET h == EntityHistory(ConnOf(ModelOfId(id)), id)
          IN ExampleStart(h) =>
               /\ h[1].changes = h[1].snapshot
               /\ h[2].snapshot = [h[1].snapshot EXCEPT !.name = "b"])

C15_Witness ==
  \E p \in Procs :
    /\ Completed(p, {"deleteOne"})
    /\ "w1" \notin DOMAIN db
    /\ ExampleLog(EntityHistory("A", "w1"))
    /\ EntityHistory("A", "w1")[1].changes = [_id |-> "w1", name |-> "a", deletedAt |-> NULL]
    /\ EntityHistory("A", "w1")[3].snapshot = [_id |-> "w1", name |-> "b", deletedAt |-> NULL]

\* the callers with an operation in flight
InFlight == {p \in Procs : pc[p] \notin Ready}

\* C16: whatever the interleaving of the operations in flight, one History
\* model at most is compiled for a connection, the registry never replaces
\* the model it holds for a connection, and every entry the operations in
\* flight have written to a connection went through the model the registry
\* holds for it.
C16_OneWriterPerConnection ==
  /\ [][\A c \in DOMAIN models :
          c \in DOMAIN models' /\ models'[c] = models[c]]_vars
  /\ [](\A c \in Conns : constructed[c] <= 1)
  /\ [](\A p \in InFlight :
          \A j \in 1..Len(req[p].written) :
            LET ref == req[p].written[j]
            IN /\ ref.conn \in DOMAIN models
               /\ ref.via = models[ref.conn]
               /\ \A q \in InFlight :
                    \A k \in 1..Len(req[q].written) :
                      req[q].written[k].conn = ref.conn =>
                        req[q].written[k].via = ref.via)

\* the first two operations overlap, neither has settled, and both have
\* written to the connection, which had no model when the first began
C16_Witness ==
  /\ ops = 2
  /\ \A p \in Procs :
       /\ pc[p] \notin Ready \cup Settled
       /\ Len(req[p].written) >= 1
       /\ req[p].written[1].conn = "A"
  /\ Len(history["A"]) = 2
  /\ constructed["A"] = 1

\* the stored entities the primary mutation of the query operation of p
\* changes or removes when it is applied now
Mutated(p) ==
  IF req[p].kind \in BulkKinds
    THEN Matching(req[p].model, req[p].query)
    ELSE LET found == FindOne(req[p].model, req[p].query)
         IN {found[j].fields._id : j \in 1..Len(found)}

\* the entities the operation of p has written an entry for
Audited(p) == {Written(p)[j].originalId : j \in 1..Len(req[p].written)}

\* C17 as stated: in the step that applies the primary mutation of a query
\* operation, the entities it changes or removes are those its hook wrote an
\* entry for, and each entry's snapshot is the entity's stored state at that
\* moment (with the patch laid over it for an update).
C17_AsStated ==
  [][\A p \in Procs :
       (req[p].kind \in QueryKinds /\ ~req[p].applied /\ req'[p].applied) =>
         /\ Mutated(p) = Audited(p)
         /\ \A j \in 1..Len(req[p].written) :
              LET entry == Written(p)[j]
              IN /\ entry.originalId \in DOMAIN db
                 /\ entry.snapshot =
                      QuerySnapshot(req[p].kind, Hydrate(entry.originalId),
                                    req[p].patch)]_vars

\* the hook of the query operation of p has read and not yet called next()
InHook(p) ==
  /\ req[p].kind \in QueryKinds
  /\ pc[p] \in {"findOneAndDelete_hook", "findOneAndUpdate_hook",
                "deleteMany_loop", "updateMany_loop"}

\* C18: a query operation whose read found nothing never fails and never
\* writes an entry; the step that ends its hook leaves every history
\* collection and the registry as they were and hands over to the primary
\* operation, which is applied.
C18_NoMatchNoEntry ==
  /\ [](\A p \in Procs :
          (req[p].kind \in QueryKinds /\ Len(req[p].docs) = 0) =>
            /\ req[p].written = <<>>
            /\ req[p].err = "none"
            /\ pc[p] # "failed"
            /\ pc[p] = "done" => req[p].applied)
  /\ [][\A p \in Procs :
          (InHook(p) /\ Len(req[p].docs) = 0 /\ pc'[p] # pc[p]) =>
            /\ history' = history
            /\ models' = models /\ constructed' = constructed
            /\ \/ pc'[p] \in {"findOneAndDelete_primary", "findOneAndUpdate_primary"}
               \/ pc'[p] = "done" /\ req'[p].applied]_vars

\* an operation by criteria found nothing while the log held entries, and
\* its primary operation has run
C18_Witness ==
  \E p, q \in Procs :
    /\ Completed(p, QueryKinds \ BulkKinds)
    /\ Len(req[p].docs) = 0 /\ req[p].applied
    /\ Completed(q, BulkKinds) /\ Len(req[q].docs) = 0 /\ req[q].applied
    /\ Len(history[ConnOf(req[p].model)]) > 0

\* the connections whose History collection the step changes
Touched == {c \in Conns : history'[c] # history[c]}

\* C19: a step that changes a History collection changes the one of a single
\* connection, by appending one entry; the entry is written by a caller for
\* a document of a model of that connection, through the model the registry
\* holds for that connection; so every entry of a connection's History
\* collection is about a document that connection owns.
C19_OwningConnection ==
  /\ [][\A c \in Touched :
          /\ Touched = {c}
          /\ Len(history'[c]) = Len(history[c]) + 1
          /\ IsPrefix(history[c], history'[c])
          /\ \E p \in Procs :
               /\ Len(req'[p].written) = WrittenBefore(p) + 1
               /\ LET ref == req'[p].written[Len(req'[p].written)]
                      entry == history'[c][Len(history'[c])]
                  IN /\ ref.conn = c /\ ref.idx = Len(history'[c])
                     /\ ConnOf(entry.modelName) = c
                     /\ ModelOfId(entry.originalId) = entry.modelName
                     /\ c \in DOMAIN models'
                     /\ ref.via = models'[c]
                     /\ ref.via.conn = c]_vars
  /\ [](\A c \in Conns :
          \A j \in 1..Len(history[c]) : ConnOf(history[c][j].modelName) = c)

\* both connections hold entries, and the two operations in flight have
\* written one to connection A and one to connection B
C19_Witness ==
  \E p, q \in Procs :
    /\ Len(req[p].written) >= 1 /\ req[p].written[1].conn = "A"
    /\ Len(req[q].written) >= 1 /\ req[q].written[1].conn = "B"
    /\ Len(history["A"]) >= 1 /\ Len(history["B"]) >= 1
    /\ "A" \in DOMAIN models /\ "B" \in DOMAIN models

====
